---- MODULE Spec2Model ----
(***************************************************************************)
(* Model of pygame_crt.CRTScreen (src/pygame_crt.py): construction,        *)
(* configure(), render() and release(), together with the part of the      *)
(* fragment shader that decides the pass-through (enable_screen == 0)      *)
(* output.                                                                 *)
(*                                                                         *)
(* Python values are modelled as follows.  An optional argument is a set:  *)
(* {} is None and {v} is the value v.  A number is a record with its       *)
(* Python type ("int", "float" or "bool") and its value, an exact rational *)
(* <<n, d>> in lowest terms with d > 0.  Floating-point rounding is not    *)
(* modelled: float arithmetic is exact rational arithmetic.  A method      *)
(* body is a composition of statements over a context record; a statement  *)
(* that raises sets the context's exc field and every later statement is   *)
(* skipped, as when an exception propagates out of the method.             *)
(***************************************************************************)
EXTENDS Integers, Sequences, FiniteSets, TLC

\* ------------------------------------------------------------------ bounds
MaxScreen == 1
MaxWin == 1
GridN == 1

\* --------------------------------------------------------- Python values
None == {}

Some(v) == {v}

Val(a) == CHOOSE v \in a : TRUE

Abs(n) == IF n < 0 THEN -n ELSE n

RECURSIVE GCD(_, _)
GCD(a, b) == IF b = 0 THEN a ELSE GCD(b, a % b)

\* the rational n/d (d # 0) in lowest terms with a positive denominator
R(n, d) ==
    LET k == GCD(Abs(n), Abs(d))
        g == IF k = 0 THEN 1 ELSE k
        s == IF d < 0 THEN -1 ELSE 1
    IN  <<(s * n) \div g, (s * d) \div g>>

RAdd(a, b) == R(a[1] * b[2] + b[1] * a[2], a[2] * b[2])

RSub(a, b) == R(a[1] * b[2] - b[1] * a[2], a[2] * b[2])

RMul(a, b) == R(a[1] * b[1], a[2] * b[2])

\* b # 0; Div below raises for b = 0
RDiv(a, b) == R(a[1] * b[2], a[2] * b[1])

RLess(a, b) == a[1] * b[2] < b[1] * a[2]

RLeq(a, b) == a[1] * b[2] <= b[1] * a[2]

RAbs(a) == <<Abs(a[1]), a[2]>>

RFloor(a) == a[1] \div a[2]

RMin(a, b) == IF RLess(b, a) THEN b ELSE a

RMax(a, b) == IF RLess(a, b) THEN b ELSE a

PyInt(n) == [type |-> "int", v |-> R(n, 1)]

PyFloat(r) == [type |-> "float", v |-> r]

PyBool(b) == [type |-> "bool", v |-> IF b THEN R(1, 1) ELSE R(0, 1)]

\* float(x)
float(x) == PyFloat(x.v)

\* int(bool(x))
int_bool(x) == IF x.v[1] # 0 THEN PyInt(1) ELSE PyInt(0)

\* min(max(x, lo), hi) on floats
min_max(x, lo, hi) == PyFloat(RMin(RMax(x.v, lo), hi))

\* struct.pack("i", x): accepts an int (a bool is an int), raises
\* struct.error for a float
pack_i(x) ==
    IF x.type = "float" THEN [exc |-> "struct.error", v |-> 0]
    ELSE [exc |-> "", v |-> x.v[1]]

\* struct.pack("f", x): accepts an int or a float
pack_f(x) == [exc |-> "", v |-> x.v]

\* list.index(x): position from 0, ValueError when x is not in the list
index(list, x) ==
    IF \E i \in 1..Len(list) : list[i] = x
    THEN [exc |-> "", v |-> PyInt((CHOOSE i \in 1..Len(list) :
                                     list[i] = x /\ \A j \in 1..(i - 1) : list[j] # x) - 1)]
    ELSE [exc |-> "ValueError", v |-> PyInt(0)]

\* variant of Div: a division by zero yields a non-finite value
Div_unchecked(x, y) == [exc |-> "", v |-> <<x[1] * y[2], x[2] * y[1]>>]

\* x / y on Python numbers: ZeroDivisionError when y is zero
Div(x, y) ==
    IF y[1] = 0 THEN [exc |-> "ZeroDivisionError", v |-> R(0, 1)]
    ELSE [exc |-> "", v |-> RDiv(x, y)]

\* ------------------------------------------------------------- constants
ColorModes == <<"none", "bright", "aces">>

ColorShiftLo == R(-1, 100)

ColorShiftHi == R(1, 100)

ColorShiftDefault == R(1, 1000)

BytesPerPixel == 4

\* ------------------------------------------------------------------ state
VARIABLES
    screen_size,   \* self.screen_size
    pipeline,      \* self.pipeline: "Pipeline" or "None"
    image,         \* self.image: "Image" or "None"
    resources,     \* GPU objects of the context not yet released
    uniforms,      \* the pipeline's uniform block
    viewport,      \* pipeline.viewport
    texture,       \* contents of the image: id of the buffer last uploaded
    frame_open,    \* ctx.new_frame() called and ctx.end_frame() not yet
    framebuffer,   \* output colour of each fragment of the last draw
    drawn,         \* texture, viewport and per-frame uniforms the last draw used
    call,          \* the last API call: operation, arguments, outcome
    events         \* effects of the last API call on its collaborators, in order

vars == <<screen_size, pipeline, image, resources, uniforms, viewport, texture,
          frame_open, framebuffer, drawn, call, events>>

ConfigFields == {"color_shift", "color_mode", "enable_noise", "enable_scanline",
                 "enable_multisample", "enable_screen"}

FlagFields == {"enable_noise", "enable_scanline", "enable_multisample", "enable_screen"}


\* ------------------------------------------------------------ statements
Raise(c, e) == [c EXCEPT !.exc = e]

\* statement  self.pipeline.uniforms[name][:] = <packed>  : the right-hand
\* side is evaluated first, then the attribute of self.pipeline is looked up
WriteUniform(c, name, p) ==
    IF c.exc # "" THEN c
    ELSE IF p.exc # "" THEN Raise(c, p.exc)
    ELSE IF c.pipeline = "None" THEN Raise(c, "AttributeError")
    ELSE [c EXCEPT !.uniforms[name] = p.v, !.events = Append(@, name)]

\* ------------------------------------------------------------- configure
SetColorShift(c, a) ==
    IF c.exc # "" \/ a = None THEN c
    ELSE WriteUniform(c, "color_shift",
                      pack_i(min_max(float(Val(a)), ColorShiftLo, ColorShiftHi)))

SetColorMode(c, a) ==
    IF c.exc # "" \/ a = None THEN c
    ELSE LET i == index(ColorModes, Val(a))
         IN  IF i.exc # "" THEN Raise(c, i.exc)
             ELSE WriteUniform(c, "color_mode", pack_i(i.v))

\* variant of SetFlag: a flag that is not given is reset to 1
SetFlag_resetting(c, name, a) ==
    IF c.exc # "" THEN c
    ELSE WriteUniform(c, name, pack_i(IF a = None THEN PyInt(1) ELSE int_bool(Val(a))))

SetFlag(c, name, a) ==
    IF c.exc # "" \/ a = None THEN c
    ELSE WriteUniform(c, name, pack_i(int_bool(Val(a))))

\* variant of configure: the colour mode is handled after the flags
configure_mode_last(c, args) ==
    LET c1 == SetColorShift(c, args.color_shift)
        c3 == SetFlag(c1, "enable_noise", args.enable_noise)
        c4 == SetFlag(c3, "enable_scanline", args.enable_scanline)
        c5 == SetFlag(c4, "enable_multisample", args.enable_multisample)
        c6 == SetFlag(c5, "enable_screen", args.enable_screen)
    IN  SetColorMode(c6, args.color_mode)

configure(c, args) ==
    LET c1 == SetColorShift(c, args.color_shift)
        c2 == SetColorMode(c1, args.color_mode)
        c3 == SetFlag(c2, "enable_noise", args.enable_noise)
        c4 == SetFlag(c3, "enable_scanline", args.enable_scanline)
        c5 == SetFlag(c4, "enable_multisample", args.enable_multisample)
    IN  SetFlag(c5, "enable_screen", args.enable_screen)

\* ---------------------------------------------------------------- shader
Black == [kind |-> "black", buffer |-> 0, x |-> 0, y |-> 0]

Clamp(n, lo, hi) == IF n < lo THEN lo ELSE IF n > hi THEN hi ELSE n

\* vertex = (vertices[gl_VertexID] + offset) * scale, interpolated over the
\* quad: the fragment at clip position p receives (p + offset) * scale
vertex_shader(p, offset, scale) ==
    <<RMul(RAdd(p[1], offset[1]), scale[1]), RMul(RAdd(p[2], offset[2]), scale[2])>>

\* texture(Texture, uv) with nearest filtering and clamp_to_edge wrapping:
\* the texel of the uploaded buffer that uv falls in
texture_sample(tex, size, uv) ==
    [kind |-> "texel", buffer |-> tex,
     x |-> Clamp(RFloor(RMul(uv[1], R(size[1], 1))), 0, size[1] - 1),
     y |-> Clamp(RFloor(RMul(uv[2], R(size[2], 1))), 0, size[2] - 1)]

\* main() of the fragment shader.  The enable_screen == 1 branch (warp,
\* multisampling, noise, scanlines, tone mapping) is not evaluated: its
\* colour is the opaque value "screen".
fragment_main(u, tex, vertex) ==
    IF u.enable_screen = 0
    THEN IF RLeq(RAbs(vertex[1]), R(1, 1)) \/ RLeq(RAbs(vertex[2]), R(1, 1))
         THEN LET uvx == RAdd(RMul(vertex[1], R(1, 2)), R(1, 2))
                  uvy == RSub(R(1, 1), RAdd(RMul(vertex[2], R(1, 2)), R(1, 2)))
              IN  texture_sample(tex, u.screen_size, <<uvx, uvy>>)
         ELSE Black
    ELSE [kind |-> "screen", buffer |-> tex, x |-> 0, y |-> 0]

\* clip-space positions of the fragments observed
Fragments == {<<R(i, GridN), R(j, GridN)>> : i, j \in (-GridN)..GridN}


\* ------------------------------------------------- collaborators (zengl)
Event(c, e) == [c EXCEPT !.events = Append(@, e)]

\* ctx.new_frame()
new_frame(c) ==
    IF c.exc # "" THEN c ELSE [Event(c, "new_frame") EXCEPT !.frame_open = TRUE]

\* ctx.end_frame()
end_frame(c) ==
    IF c.exc # "" THEN c ELSE [Event(c, "end_frame") EXCEPT !.frame_open = FALSE]

\* Image.write(view): replaces the whole contents; a view whose length is
\* not width * height * 4 bytes is an error and nothing is uploaded
Image_write(c, view) ==
    IF view.len # c.screen_size[1] * c.screen_size[2] * BytesPerPixel
    THEN Raise(Event(c, "write"), "ValueError")
    ELSE [Event(c, "write") EXCEPT !.texture = view.id]

\* Pipeline.render(): one draw of the quad with the current texture,
\* viewport and uniforms
Pipeline_render(c) ==
    [Event(c, "render") EXCEPT
        !.drawn = [texture |-> c.texture, viewport |-> c.viewport,
                   time |-> c.uniforms.time, scale |-> c.uniforms.scale,
                   offset |-> c.uniforms.offset,
                   enable_screen |-> c.uniforms.enable_screen],
        !.framebuffer = [p \in Fragments |->
            fragment_main(c.uniforms, c.texture,
                          vertex_shader(p, c.uniforms.offset, c.uniforms.scale))]]

\* ctx.release(obj): frees the GPU object; releasing what is not a live
\* object (None after a first release()) is an error
Context_release(c, obj) ==
    IF c.exc # "" THEN c
    ELSE IF obj \notin c.resources THEN Raise(Event(c, "release"), "ReleaseError")
    ELSE [Event(c, "release") EXCEPT !.resources = @ \ {obj}]

\* ---------------------------------------------------------------- render
\* lines 205-209: the defaults of offset and tick
defaults(args) ==
    [offset |-> IF args.offset = None THEN <<PyFloat(R(0, 1)), PyFloat(R(0, 1))>>
                ELSE Val(args.offset),
     tick |-> IF args.tick = None THEN PyInt(args.ticks) ELSE Val(args.tick)]

\* variant of aspect_fit: the comparison is reversed
aspect_fit_reversed(screen_aspect, window_aspect) ==
    IF RLess(window_aspect, screen_aspect)
    THEN LET scale_x == Div(window_aspect, screen_aspect)
         IN  [exc |-> scale_x.exc, scale |-> <<scale_x.v, R(1, 1)>>]
    ELSE LET scale_y == Div(screen_aspect, window_aspect)
         IN  [exc |-> scale_y.exc, scale |-> <<R(1, 1), scale_y.v>>]

\* lines 214-219: scale_x, scale_y from the two aspect ratios
aspect_fit(screen_aspect, window_aspect) ==
    IF RLess(screen_aspect, window_aspect)
    THEN LET scale_x == Div(window_aspect, screen_aspect)
         IN  [exc |-> scale_x.exc, scale |-> <<scale_x.v, R(1, 1)>>]
    ELSE LET scale_y == Div(screen_aspect, window_aspect)
         IN  [exc |-> scale_y.exc, scale |-> <<R(1, 1), scale_y.v>>]

\* lines 211-219: window aspect, offset in logical units, scale
transform(size, screen_aspect, window, offset) ==
    LET window_aspect == Div(R(window[1], 1), R(window[2], 1))
        offset_x == Div(offset[1].v, R(size[1], 1))
        offset_y == Div(offset[2].v, R(size[2], 1))
        fit == aspect_fit(screen_aspect, window_aspect.v)
        exc == IF window_aspect.exc # "" THEN window_aspect.exc
               ELSE IF offset_x.exc # "" THEN offset_x.exc
               ELSE IF offset_y.exc # "" THEN offset_y.exc
               ELSE fit.exc
    IN  [exc |-> exc, offset |-> <<offset_x.v, offset_y.v>>, scale |-> fit.scale]

\* line 11: self.screen_aspect = self.screen_size[0] / self.screen_size[1]
screen_aspect_of(size) == RDiv(R(size[1], 1), R(size[2], 1))

\* line 223: self.image.write(view)
WriteImage(c, view) ==
    IF c.exc # "" THEN c
    ELSE IF c.image = "None" THEN Raise(c, "AttributeError")
    ELSE Image_write(c, view)

\* line 224: self.pipeline.viewport = (0, 0, window_width, window_height)
SetViewport(c, window) ==
    IF c.exc # "" THEN c
    ELSE IF c.pipeline = "None" THEN Raise(c, "AttributeError")
    ELSE [Event(c, "viewport") EXCEPT !.viewport = <<0, 0, window[1], window[2]>>]

\* line 228: self.pipeline.render()
Draw(c) ==
    IF c.exc # "" THEN c
    ELSE IF c.pipeline = "None" THEN Raise(c, "AttributeError")
    ELSE Pipeline_render(c)

\* struct.pack("2f", x, y)
pack_2f(xy) == [exc |-> "", v |-> xy]

\* lines 211-220: pygame.display.get_window_size() and the transform
Measure(c, args) ==
    LET c1 == Event(c, "get_window_size")
        t  == transform(c.screen_size, screen_aspect_of(c.screen_size), args.window,
                        defaults(args).offset)
    IN  IF t.exc # "" THEN Raise(c1, t.exc) ELSE c1

\* variant of Frame: the per-frame uniforms are written before the upload
Frame_uniforms_first(c, args, t) ==
    LET c2 == new_frame(c)
        c3 == WriteUniform(c2, "time", pack_f(defaults(args).tick))
        c4 == WriteUniform(c3, "scale", pack_2f(t.scale))
        c5 == WriteUniform(c4, "offset", pack_2f(t.offset))
        c6 == IF c5.exc # "" THEN c5 ELSE Event(c5, "get_buffer")
        c7 == WriteImage(c6, args.screen)
        c8 == SetViewport(c7, args.window)
        c9 == Draw(c8)
    IN  end_frame(c9)

\* variant of Frame: the draw is issued before the per-frame uniforms are written
Frame_draw_first(c, args, t) ==
    LET c2 == new_frame(c)
        c3 == IF c2.exc # "" THEN c2 ELSE Event(c2, "get_buffer")
        c4 == WriteImage(c3, args.screen)
        c5 == SetViewport(c4, args.window)
        c6 == Draw(c5)
        c7 == WriteUniform(c6, "time", pack_f(defaults(args).tick))
        c8 == WriteUniform(c7, "scale", pack_2f(t.scale))
        c9 == WriteUniform(c8, "offset", pack_2f(t.offset))
    IN  end_frame(c9)

\* lines 221-229, given the transform t
Frame(c, args, t) ==
    LET c2 == new_frame(c)
        c3 == IF c2.exc # "" THEN c2 ELSE Event(c2, "get_buffer")
        c4 == WriteImage(c3, args.screen)
        c5 == SetViewport(c4, args.window)
        c6 == WriteUniform(c5, "time", pack_f(defaults(args).tick))
        c7 == WriteUniform(c6, "scale", pack_2f(t.scale))
        c8 == WriteUniform(c7, "offset", pack_2f(t.offset))
        c9 == Draw(c8)
    IN  end_frame(c9)

render(c, args) ==
    LET c0 == IF args.tick = None THEN Event(c, "get_ticks") ELSE c
        t  == transform(c.screen_size, screen_aspect_of(c.screen_size), args.window,
                        defaults(args).offset)
    IN  Frame(Measure(c0, args), args, t)

\* --------------------------------------------------------------- release
release(c) ==
    LET c1 == Context_release(c, c.pipeline)
        c2 == Context_release(c1, c.image)
    IN  IF c2.exc # "" THEN c2
        ELSE [c2 EXCEPT !.pipeline = "None", !.image = "None"]

\* ---------------------------------------------------------------- inputs
ScreenSizes == ((1..MaxScreen) \X (1..MaxScreen)) \cup {<<320, 240>>}

WindowSizes == ((0..MaxWin) \X (0..MaxWin)) \cup {<<640, 480>>, <<800, 480>>}

ColorShiftArgs == {None, Some(PyFloat(R(1, 200))), Some(PyFloat(R(1, 20))), Some(PyInt(-1))}

ColorModeArgs == {None, Some("none"), Some("bright"), Some("aces"), Some("invalid")}

FlagArgs == {None, Some(PyBool(TRUE)), Some(PyBool(FALSE))}

NoConfig == [f \in ConfigFields |-> None]

\* every call that gives none, one or two of the six fields
ConfigArgs ==
    {a \in [color_shift : ColorShiftArgs, color_mode : ColorModeArgs,
            enable_noise : FlagArgs, enable_scanline : FlagArgs,
            enable_multisample : FlagArgs, enable_screen : FlagArgs] :
        Cardinality({f \in ConfigFields : a[f] # None}) <= 2}

\* a few calls: none, one field each, an unknown colour mode
FewConfigArgs ==
    {NoConfig,
     [NoConfig EXCEPT !.enable_screen = Some(PyBool(FALSE))],
     [NoConfig EXCEPT !.color_mode = Some("aces")],
     [NoConfig EXCEPT !.color_mode = Some("invalid")],
     [NoConfig EXCEPT !.color_shift = Some(PyFloat(R(1, 200)))]}

\* surfaces: the pixels (one of two contents) and the byte length of the
\* buffer, 4 bytes per pixel or 3
Surfaces(size) ==
    [id : {1, 2},
     len : {size[1] * size[2] * BytesPerPixel, size[1] * size[2] * 3}]

\* a same-aspect window, a wider window, a window of height 0
FewWindows == {<<640, 480>>, <<800, 480>>, <<640, 0>>}

\* offset and tick both defaulted (the clock then reads 2 ms), or both given
Timings ==
    {[offset |-> None, tick |-> None, ticks |-> 2],
     [offset |-> Some(<<PyInt(1), PyInt(0)>>), tick |-> Some(PyFloat(R(1, 2))), ticks |-> 0]}

NoRender == [screen |-> [id |-> 0, len |-> 0], offset |-> None, tick |-> None,
             ticks |-> 0, window |-> <<0, 0>>]

\* ------------------------------------------------------------------- Init
\* __init__(screen_size): lines 9-169
InitWith(Sizes) ==
    /\ screen_size \in Sizes
    /\ pipeline = "Pipeline"
    /\ image = "Image"
    /\ resources = {"Pipeline", "Image"}
    /\ uniforms = [time |-> R(0, 1), scale |-> <<R(1, 1), R(1, 1)>>,
                   offset |-> <<R(0, 1), R(0, 1)>>, screen_size |-> screen_size,
                   color_shift |-> ColorShiftDefault, color_mode |-> 1,
                   enable_noise |-> 1, enable_scanline |-> 1,
                   enable_multisample |-> 1, enable_screen |-> 1]
    /\ viewport = <<0, 0, 0, 0>>
    /\ texture = 0
    /\ frame_open = FALSE
    /\ framebuffer = [p \in Fragments |-> Black]
    /\ drawn = [texture |-> 0, viewport |-> <<0, 0, 0, 0>>, time |-> R(0, 1),
                scale |-> <<R(1, 1), R(1, 1)>>, offset |-> <<R(0, 1), R(0, 1)>>,
                enable_screen |-> 1]
    /\ call = [op |-> "init", exc |-> "", cfg |-> NoConfig, rnd |-> NoRender]
    /\ events = <<>>

Init == InitWith(ScreenSizes)

Context ==
    [screen_size |-> screen_size, pipeline |-> pipeline, image |-> image,
     resources |-> resources, uniforms |-> uniforms, viewport |-> viewport,
     texture |-> texture, frame_open |-> frame_open, framebuffer |-> framebuffer,
     drawn |-> drawn, events |-> <<>>, exc |-> ""]

Commit(c) ==
    /\ pipeline' = c.pipeline
    /\ image' = c.image
    /\ resources' = c.resources
    /\ uniforms' = c.uniforms
    /\ viewport' = c.viewport
    /\ texture' = c.texture
    /\ frame_open' = c.frame_open
    /\ framebuffer' = c.framebuffer
    /\ drawn' = c.drawn
    /\ events' = c.events
    /\ UNCHANGED screen_size

\* ---------------------------------------------------------------- actions
Configure(Args) ==
    \E args \in Args :
        \E c \in {configure(Context, args)} :
            /\ Commit(c)
            /\ call' = [op |-> "configure", exc |-> c.exc, cfg |-> args, rnd |-> NoRender]

Render(Windows, Times) ==
    \E screen \in Surfaces(screen_size), timing \in Times, window \in Windows :
        LET args == [screen |-> screen, offset |-> timing.offset, tick |-> timing.tick,
                     ticks |-> timing.ticks, window |-> window]
        IN  \E c \in {render(Context, args)} :
                /\ Commit(c)
                /\ call' = [op |-> "render", exc |-> c.exc, cfg |-> NoConfig, rnd |-> args]

Release ==
    \E c \in {release(Context)} :
        /\ Commit(c)
        /\ call' = [op |-> "release", exc |-> c.exc, cfg |-> NoConfig, rnd |-> NoRender]

\* the whole object, with a few configure() calls and windows
Next ==
    \/ Configure(FewConfigArgs)
    \/ Render(FewWindows, {t \in Timings : t.tick = None})
    \/ Release

Spec == Init /\ [][Next]_vars

\* configure() with every argument combination, on a 320x240 screen
InitConfigure == InitWith({<<320, 240>>})

NextConfigure ==
    \/ Configure(ConfigArgs)
    \/ Release

SpecConfigure == InitConfigure /\ [][NextConfigure]_vars

\* render() alone, frame after frame
NextRender == Render(WindowSizes, Timings)

SpecRender == Init /\ [][NextRender]_vars


\* ================================================================ claims
HasEvent(e) == \E i \in 1..Len(events) : events[i] = e

Before(e, f) == \E i, j \in 1..Len(events) : i < j /\ events[i] = e /\ events[j] = f

Finite(r) == r[2] # 0

BufferFits == call.rnd.screen.len = screen_size[1] * screen_size[2] * 4

\* the scale of the aspect fit, computed on integers by cross-multiplication
ExpectedScale(size, window) ==
    IF size[1] * window[2] < window[1] * size[2]
    THEN <<R(window[1] * size[2], window[2] * size[1]), R(1, 1)>>
    ELSE <<R(1, 1), R(size[1] * window[2], size[2] * window[1])>>

\* C1: for positive logical size (w,h) and window size (W,H), the scale
\* render() writes is ((W/H)/(w/h), 1) if w/h < W/H and (1, (w/h)/(W/H))
\* otherwise; equal aspect ratios give (1,1); (320,240) in (800,480) gives
\* (1.25, 1).
C1_AspectFit ==
    (call.op = "render" /\ HasEvent("scale")) =>
        /\ call.rnd.window[1] > 0 /\ call.rnd.window[2] > 0
        /\ uniforms.scale = ExpectedScale(screen_size, call.rnd.window)
        /\ (screen_size[1] * call.rnd.window[2] = call.rnd.window[1] * screen_size[2]
              => uniforms.scale = <<R(1, 1), R(1, 1)>>)
        /\ (screen_size = <<320, 240>> /\ call.rnd.window = <<800, 480>>
              => uniforms.scale = <<R(5, 4), R(1, 1)>>)

C1_Witness ==
    /\ call.op = "render" /\ HasEvent("scale")
    /\ screen_size = <<320, 240>> /\ call.rnd.window = <<800, 480>>
    /\ uniforms.scale = <<R(5, 4), R(1, 1)>>

ClampShift(x) ==
    IF RLess(x, R(-1, 100)) THEN R(-1, 100)
    ELSE IF RLess(R(1, 100), x) THEN R(1, 100) ELSE x

\* C2: in the Active state configure(colorShift=x), numeric x, completes and
\* stores x clamped to [-0.01, 0.01].
C2_ColorShiftClamped ==
    [][(/\ pipeline = "Pipeline"
        /\ call'.op = "configure"
        /\ call'.cfg.color_shift # None
        /\ call'.cfg = [NoConfig EXCEPT !.color_shift = call'.cfg.color_shift])
       => (/\ call'.exc = ""
           /\ uniforms'.color_shift = ClampShift(Val(call'.cfg.color_shift).v))]_vars

\* C3: a configure() call with an unknown colorMode fails and leaves the six
\* EffectConfig fields as they were, whatever other fields it was given.
C3_InvalidModeAtomic ==
    [][(/\ call'.op = "configure"
        /\ call'.cfg.color_mode # None
        /\ Val(call'.cfg.color_mode) \notin {"none", "bright", "aces"})
       => (/\ call'.exc # ""
           /\ \A f \in ConfigFields : uniforms'[f] = uniforms[f])]_vars

C3_Witness ==
    /\ call.op = "configure" /\ call.exc = "ValueError"
    /\ call.cfg.color_mode = Some("invalid")
    /\ call.cfg.enable_noise = Some(PyBool(FALSE))
    /\ uniforms.enable_noise = 1
    /\ pipeline = "Pipeline"

\* C4: after release(), every configure(), render() or release() call fails.
C4_UseAfterRelease == [][pipeline = "None" => call'.exc # ""]_vars

\* inside the unit square: |x| <= 1 and |y| <= 1
InUnitSquare(vertex) == RLeq(RAbs(vertex[1]), R(1, 1)) /\ RLeq(RAbs(vertex[2]), R(1, 1))

\* C5: with enableScreen false a fragment samples the texture only when its
\* vertex coordinate is inside the unit square; every other fragment is black.
C5_PassthroughBars ==
    drawn.enable_screen = 0 =>
        \A p \in Fragments :
            LET v == vertex_shader(p, drawn.offset, drawn.scale)
            IN  /\ framebuffer[p].kind = "texel" <=> InUnitSquare(v)
                /\ ~InUnitSquare(v) => framebuffer[p] = Black

\* the value a field holds after a call gave it the argument v
Stored(f, v) ==
    CASE f = "color_shift" -> ClampShift(v.v)
      [] f = "color_mode" -> (CASE v = "none" -> 0 [] v = "bright" -> 1 [] v = "aces" -> 2)
      [] OTHER -> IF v = PyBool(TRUE) THEN 1 ELSE 0

ConfigDefaults ==
    /\ uniforms.color_shift = R(1, 1000)
    /\ uniforms.color_mode = 1
    /\ \A f \in FlagFields : uniforms[f] = 1

\* C6: the fields start at the defaults; a successful configure() sets each
\* field it is given to the given value and leaves every other field as it
\* was (so each field holds the value of the latest call that gave it, or
\* its default); configure() with no arguments changes nothing.
C6_PartialUpdate ==
    /\ [](call.op = "init" => ConfigDefaults)
    /\ [][(call'.op = "configure" /\ call'.exc = "")
          => \A f \in ConfigFields :
                uniforms'[f] = IF call'.cfg[f] # None
                               THEN Stored(f, Val(call'.cfg[f]))
                               ELSE uniforms[f]]_vars

C6_Witness ==
    /\ call.op = "configure" /\ call.exc = ""
    /\ call.cfg.enable_noise = Some(PyBool(FALSE)) /\ call.cfg.color_mode = None
    /\ uniforms.enable_noise = 0
    /\ uniforms.color_mode = 2 /\ uniforms.enable_screen = 0
    /\ uniforms.color_shift = R(1, 1000)

\* C7: with window height 0, render() fails before the texture is written,
\* before scale, offset or time are written and before any draw; the stored
\* scale is always finite.
C7_ZeroHeight ==
    [][/\ Finite(uniforms'.scale[1]) /\ Finite(uniforms'.scale[2])
       /\ (call'.op = "render" /\ call'.rnd.window[2] = 0)
          => (/\ call'.exc # ""
              /\ texture' = texture /\ uniforms' = uniforms
              /\ framebuffer' = framebuffer /\ drawn' = drawn
              /\ \A i \in 1..Len(events') :
                    events'[i] \notin {"write", "time", "scale", "offset", "render"})]_vars

C7_Witness ==
    /\ call.op = "render" /\ call.rnd.window[2] = 0 /\ call.rnd.window[1] > 0
    /\ BufferFits
    /\ call.exc = "ZeroDivisionError"
    /\ HasEvent("get_window_size")

\* C8: render() with a buffer whose length is not width*height*4 fails; the
\* texture is unchanged, time, scale and offset are not updated, no draw.
C8_BufferMismatch ==
    [][(call'.op = "render" /\ ~BufferFits')
       => (/\ call'.exc # ""
           /\ texture' = texture
           /\ uniforms'.time = uniforms.time
           /\ uniforms'.scale = uniforms.scale
           /\ uniforms'.offset = uniforms.offset
           /\ framebuffer' = framebuffer /\ drawn' = drawn
           /\ \A i \in 1..Len(events') : events'[i] # "render")]_vars

C8_Witness ==
    /\ call.op = "render" /\ ~BufferFits
    /\ call.rnd.window = <<800, 480>>
    /\ call.exc = "ValueError" /\ HasEvent("write")
    /\ texture # 0 /\ texture # call.rnd.screen.id

ExpectedTime == IF call.rnd.tick = None THEN R(call.rnd.ticks, 1) ELSE Val(call.rnd.tick).v

ExpectedOffset ==
    IF call.rnd.offset = None THEN <<R(0, 1), R(0, 1)>>
    ELSE <<R(Val(call.rnd.offset)[1].v[1], Val(call.rnd.offset)[1].v[2] * screen_size[1]),
           R(Val(call.rnd.offset)[2].v[1], Val(call.rnd.offset)[2].v[2] * screen_size[2])>>

\* C9: a render() that returns normally issues exactly one draw, after the
\* window-size query, the upload of the buffer, the viewport assignment to
\* (0, 0, W, H) and the writes of time, scale and offset; the draw uses this
\* call's texture and per-frame uniforms.
C9_DrawLast ==
    (call.op = "render" /\ call.exc = "") =>
        /\ Cardinality({i \in 1..Len(events) : events[i] = "render"}) = 1
        /\ \A e \in {"get_window_size", "write", "viewport", "time", "scale", "offset"} :
              HasEvent(e) /\ ~Before("render", e)
        /\ drawn.texture = call.rnd.screen.id
        /\ drawn.viewport = <<0, 0, call.rnd.window[1], call.rnd.window[2]>>
        /\ drawn.time = ExpectedTime
        /\ drawn.offset = ExpectedOffset
        /\ drawn.scale = ExpectedScale(screen_size, call.rnd.window)

C9_Witness ==
    /\ call.op = "render" /\ call.exc = ""
    /\ call.rnd.screen.id = 2 /\ drawn.texture = 2
    /\ call.rnd.tick # None /\ drawn.time = R(1, 2)
    /\ drawn.offset = <<R(1, 320), R(0, 1)>>
    /\ drawn.viewport = <<0, 0, 800, 480>>

\* C10: every frame render() opens with new_frame() is closed with
\* end_frame() before render() returns, normally or with an error.
C10_FrameClosed ==
    (call.op = "render" /\ HasEvent("new_frame")) =>
        (~frame_open /\ events[Len(events)] = "end_frame")

====
